---- MODULE Spec2Model ----
(***************************************************************************)
(* Conway's Game of Life on a double-buffered grid, with the perturbation  *)
(* operators big_bang / invert / thanos, the paired-row renderer and the   *)
(* keyboard-driven control loop of main().  Modelled from src/src/main.cpp.*)
(***************************************************************************)
EXTENDS Integers, Sequences, FiniteSets, TLC

\* ------------------------------------------------------------------ bounds
\* The per-iteration random draw is 0..MaxDraw (0, 1, 2 select a perturbation).
MaxDraw == 3
\* Direct calls of next_generation / tick: every grid of at most MaxCells cells.
MaxCells == 9
\* Grids holding one 2x2 block: 2..MaxBlockDim columns and rows.
MaxBlockDim == 4
\* Grids holding one blinker: 5..MaxBlinkerDim columns and rows.
MaxBlinkerDim == 8
\* Direct calls of the perturbation operators: every grid of up to MaxPW x MaxPH.
MaxPW == 2
MaxPH == 2
\* Direct calls of render: every grid of even height and at most MaxRenderCells
\* cells.
MaxRenderCells == 9

\* ------------------------------------------------------- program constants
min_tick_ms == 8
max_tick_ms == 1024

VARIABLES
    game,             \* the double_buffered_grid of *game: [first, a, b]
    screen,           \* the glyph grid last written by render()
    wrap,             \* main's wrap
    running,          \* main's running
    tick_ms,          \* main's tick_ms
    timeout_ms,       \* the getch() timeout last set by timeout()
    key,              \* the key read by getch() in this iteration
    random_selector,  \* the draw of this iteration
    calls,            \* calls made on *game in this iteration: <<name, line>>
    pc,               \* position of main
    g0                \* the input grid of a direct call (function specifications)

vars ==
    <<game, screen, wrap, running, tick_ms, timeout_ms, key, random_selector,
      calls, pc, g0>>

\* --------------------------------------------------------------- C++ helpers
Abs(x) == IF x >= 0 THEN x ELSE -x

\* C++ integer remainder (truncating towards zero; the sign is the dividend's).
CRem(x, n) == IF x >= 0 THEN x % Abs(n) ELSE -((-x) % Abs(n))

\* C++ integer quotient (truncating towards zero).
CQuot(x, n) ==
    IF (x >= 0) = (n >= 0) THEN Abs(x) \div Abs(n) ELSE -(Abs(x) \div Abs(n))

\* bool -> int conversion in an arithmetic expression.
B2I(p) == IF p THEN 1 ELSE 0

\* --------------------------------------------------------------------- grid
\* grid::grid: storage of width*height cells, allocated without initialisation.
\* `uninit` is the set of indices never written; their data value is a
\* placeholder that no operation reads (see FrontWritten).
grid(w, h) ==
    [width |-> w, height |-> h,
     data |-> [i \in 0..(w * h - 1) |-> FALSE],
     uninit |-> 0..(w * h - 1)]

\* The storage index grid::operator() resolves (x, y) to.
index(g, x, y) ==
    CRem(x + g.width, g.width) + CRem(y + g.height, g.height) * g.width

\* grid::operator() as a read.
at(g, x, y) == g.data[index(g, x, y)]

\* Indices of the live / dead cells.
Alive(g) == {i \in DOMAIN g.data : g.data[i]}
Dead(g) == {i \in DOMAIN g.data : ~g.data[i]}

\* Mutant of big_bang: the test of the cell is missing, every cell is assigned.
big_bang_unconditional(g, zero) ==
    [g EXCEPT !.data = [i \in DOMAIN g.data |-> (i \in zero)]]

\* grid::big_bang: every dead cell draws from 0..10 and becomes alive when the
\* draw is 0; `zero` is the set of dead cells whose draw was 0.
big_bang(g, zero) ==
    [g EXCEPT !.data = [i \in DOMAIN g.data |->
                           IF ~g.data[i] THEN (i \in zero) ELSE g.data[i]]]

\* Mutant of invert: the loop stops one cell short.
invert_one_short(g) ==
    [g EXCEPT !.data = [i \in DOMAIN g.data |->
                           IF i < g.width * g.height - 1 THEN ~g.data[i] ELSE g.data[i]]]

\* grid::invert
invert(g) ==
    [g EXCEPT !.data = [i \in DOMAIN g.data |-> ~g.data[i]]]

\* Mutant of thanos: the test of the cell is negated, so dead cells draw.
thanos_negated_test(g, one) ==
    [g EXCEPT !.data = [i \in DOMAIN g.data |->
                           IF ~g.data[i] THEN (i \notin one) ELSE g.data[i]]]

\* grid::thanos: every live cell draws from 0..1 and takes bool(draw); `one` is
\* the set of live cells whose draw was 1.
thanos(g, one) ==
    [g EXCEPT !.data = [i \in DOMAIN g.data |->
                           IF g.data[i] THEN (i \in one) ELSE g.data[i]]]

\* ------------------------------------------------------ double_buffered_grid
\* Mutant of double_buffered_grid: b is built with the dimensions exchanged.
double_buffered_grid_b_transposed(w, h) ==
    [first |-> TRUE, a |-> grid(w, h), b |-> grid(h, w)]

double_buffered_grid(w, h) == [first |-> TRUE, a |-> grid(w, h), b |-> grid(w, h)]

front(buf) == IF buf.first THEN buf.a ELSE buf.b
back(buf) == IF buf.first THEN buf.b ELSE buf.a
swap(buf) == [buf EXCEPT !.first = ~buf.first]

\* Assignment through the reference back() returns.
SetBack(buf, g) == IF buf.first THEN [buf EXCEPT !.b = g] ELSE [buf EXCEPT !.a = g]
\* Assignment through the reference front() returns.
SetFront(buf, g) == IF buf.first THEN [buf EXCEPT !.a = g] ELSE [buf EXCEPT !.b = g]

\* ---------------------------------------------------------- next_generation
\* Mutant of neighbours: the right edge is tested against width, not width - 1.
neighbours_right_off_by_one(in, x, y, wr) ==
    LET left == wr \/ (x # 0)
        up == wr \/ (y # 0)
        right == wr \/ (x # in.width)
        down == wr \/ (y # in.height - 1)
    IN  B2I(left /\ up /\ in.data[index(in, x - 1, y - 1)]) +
        B2I(left /\ in.data[index(in, x - 1, y)]) +
        B2I(left /\ down /\ in.data[index(in, x - 1, y + 1)]) +
        B2I(up /\ in.data[index(in, x, y - 1)]) +
        B2I(down /\ in.data[index(in, x, y + 1)]) +
        B2I(right /\ up /\ in.data[index(in, x + 1, y - 1)]) +
        B2I(right /\ in.data[index(in, x + 1, y)]) +
        B2I(right /\ down /\ in.data[index(in, x + 1, y + 1)])

\* The neighbour count of (x, y) as next_generation computes it.
neighbours(in, x, y, wr) ==
    LET left == wr \/ (x # 0)
        up == wr \/ (y # 0)
        right == wr \/ (x # in.width - 1)
        down == wr \/ (y # in.height - 1)
    IN  B2I(left /\ up /\ at(in, x - 1, y - 1)) +
        B2I(left /\ at(in, x - 1, y)) +
        B2I(left /\ down /\ at(in, x - 1, y + 1)) +
        B2I(up /\ at(in, x, y - 1)) +
        B2I(down /\ at(in, x, y + 1)) +
        B2I(right /\ up /\ at(in, x + 1, y - 1)) +
        B2I(right /\ at(in, x + 1, y)) +
        B2I(right /\ down /\ at(in, x + 1, y + 1))

\* Mutant of next_cell: a live cell survives on two neighbours only.
next_cell_survive_two_only(in, x, y, wr) ==
    LET n == neighbours(in, x, y, wr)
    IN  IF in.data[index(in, x, y)] THEN n = 2 ELSE n = 3

\* The value written to out(x, y).
next_cell(in, x, y, wr) ==
    LET n == neighbours(in, x, y, wr)
    IN  (n = 3) \/ (at(in, x, y) /\ n = 2)

\* The assertion at the head of next_generation.
DimsMatch(in, out) == in.width = out.width /\ in.height = out.height

\* Mutant of next_generation: the last column is never written.
next_generation_last_column_skipped(in, out, wr) ==
    LET range == (0..(in.width - 2)) \X (0..(in.height - 1))
        hit(i) == {p \in range : index(out, p[1], p[2]) = i}
    IN  [out EXCEPT
            !.data = [i \in DOMAIN out.data |->
                         LET writers == hit(i)
                         IN  IF writers # {}
                             THEN LET p == CHOOSE q \in writers : TRUE
                                  IN  next_cell(in, p[1], p[2], wr)
                             ELSE out.data[i]],
            !.uninit = {i \in out.uninit : hit(i) = {}}]

\* next_generation: the grid `out` after the two loops; each (x, y) of in's
\* range writes out(x, y), every other cell of out keeps its content.
next_generation(in, out, wr) ==
    LET range == (0..(in.width - 1)) \X (0..(in.height - 1))
        hit(i) == {p \in range : index(out, p[1], p[2]) = i}
    IN  [out EXCEPT
            !.data = [i \in DOMAIN out.data |->
                         LET writers == hit(i)
                         IN  IF writers # {}
                             THEN LET p == CHOOSE q \in writers : TRUE
                                  IN  next_cell(in, p[1], p[2], wr)
                             ELSE out.data[i]],
            !.uninit = {i \in out.uninit : hit(i) = {}}]

\* ------------------------------------------------------------- game_of_life
\* Mutant of game_of_life: the swap at the end of the constructor is missing.
game_of_life_no_swap(w, h, zero) ==
    LET buf == double_buffered_grid(w, h)
        g == back(buf)
    IN  SetBack(buf, [g EXCEPT !.data = [j \in DOMAIN g.data |-> j \in zero],
                               !.uninit = {}])

\* game_of_life::game_of_life: the back grid is filled cell by cell from a
\* draw over 0..3 (`zero`: the indices whose draw was 0), then swapped in.
game_of_life(w, h, zero) ==
    LET buf == double_buffered_grid(w, h)
        g == back(buf)
        cells == 0..(w * h - 1)
        hit(j) == {i \in cells : index(g, CRem(i, w), CQuot(i, w)) = j}
        filled == [g EXCEPT
                      !.data = [j \in DOMAIN g.data |->
                                   IF hit(j) # {}
                                   THEN (CHOOSE i \in hit(j) : TRUE) \in zero
                                   ELSE g.data[j]],
                      !.uninit = {j \in g.uninit : hit(j) = {}}]
    IN  swap(SetBack(buf, filled))

\* Mutant of glyph: the two half-block glyphs are exchanged.
glyph_halves_exchanged(top, bottom) ==
    IF top THEN (IF bottom THEN "full" ELSE "lower")
           ELSE (IF bottom THEN "upper" ELSE "blank")

\* The glyph render() emits for a pair of vertically adjacent cells.
glyph(top, bottom) ==
    IF top THEN (IF bottom THEN "full" ELSE "upper")
           ELSE (IF bottom THEN "lower" ELSE "blank")

\* game_of_life::render: the glyph grid written to the terminal, one output
\* row per pair of grid rows.
render(buf) ==
    LET g == front(buf)
    IN  [r \in 0..((g.height \div 2) - 1) |->
            [x \in 0..(g.width - 1) |-> glyph(at(g, x, 2 * r), at(g, x, 2 * r + 1))]]

\* Mutant of tick: the swap is forgotten.
tick_no_swap(buf, wr) == SetBack(buf, next_generation(front(buf), back(buf), wr))

\* game_of_life::tick
tick(buf, wr) == swap(SetBack(buf, next_generation(front(buf), back(buf), wr)))

\* game_of_life::big_bang / invert / thanos act on front().
game_big_bang(buf, zero) == SetFront(buf, big_bang(front(buf), zero))
game_invert(buf) == SetFront(buf, invert(front(buf)))
game_thanos(buf, one) == SetFront(buf, thanos(front(buf), one))

\* ----------------------------------------------------------------- new_game
\* Terminal (or GOL_WIDTH / GOL_HEIGHT) sizes <<columns, rows>> new_game() sees
\* while the control loop runs.
TermSizes == {<<1, 1>>}

\* new_game(): every game it can build; the grid is width x (height * 2).
new_game ==
    UNION {{game_of_life(sz[1], sz[2] * 2, zero) :
               zero \in SUBSET (0..(sz[1] * sz[2] * 2 - 1))} : sz \in TermSizes}

\* --------------------------------------------------------------------- main
\* What getch() can return: the resize event, the bound keys, ERR on a timeout
\* and a key bound to nothing.
Keys ==
    {"KEY_RESIZE", "r", "-", "+", "w", "p", " ", "b", "i", "t", "s", "q",
     "ERR", "x"}

\* Values of random_int_generator() the model distinguishes.
Draws == 0..MaxDraw

\* A call made on *game, with the line of main() that makes it.
Call(name, line) == <<name, line>>

\* The part of main's state the loop body works on.
MainState ==
    [game |-> game, screen |-> screen, wrap |-> wrap, running |-> running,
     tick_ms |-> tick_ms, timeout_ms |-> timeout_ms, calls |-> calls]

\* Mutant of IfResize: the new game restarts the simulation (running = true).
IfResize_restarts(s, k) ==
    IF k = "KEY_RESIZE" \/ k = "r"
    THEN {[s EXCEPT !.game = g, !.screen = render(g), !.running = TRUE,
                    !.calls = @ \o <<Call("new_game", 267), Call("render", 268)>>] :
             g \in new_game}
    ELSE {s}

\* if (key == KEY_RESIZE || key == 'r') { game = new_game(); game->render(); }
IfResize(s, k) ==
    IF k = "KEY_RESIZE" \/ k = "r"
    THEN {[s EXCEPT !.game = g, !.screen = render(g),
                    !.calls = @ \o <<Call("new_game", 267), Call("render", 268)>>] :
             g \in new_game}
    ELSE {s}

\* Mutant of IfSlower: the guard is <= instead of <.
IfSlower_inclusive(s, k) ==
    IF k = "-" /\ s.tick_ms <= max_tick_ms
    THEN [s EXCEPT !.tick_ms = s.tick_ms * 2, !.timeout_ms = s.tick_ms * 2]
    ELSE s

\* if (key == '-' && tick_ms < max_tick_ms) { tick_ms *= 2; timeout(tick_ms); }
IfSlower(s, k) ==
    IF k = "-" /\ s.tick_ms < max_tick_ms
    THEN [s EXCEPT !.tick_ms = s.tick_ms * 2, !.timeout_ms = s.tick_ms * 2]
    ELSE s

\* if (key == '+' && tick_ms > min_tick_ms) { tick_ms /= 2; timeout(tick_ms); }
IfFaster(s, k) ==
    IF k = "+" /\ s.tick_ms > min_tick_ms
    THEN [s EXCEPT !.tick_ms = s.tick_ms \div 2, !.timeout_ms = s.tick_ms \div 2]
    ELSE s

\* if (key == 'w') { wrap = !wrap; }
IfWrap(s, k) == IF k = "w" THEN [s EXCEPT !.wrap = ~s.wrap] ELSE s

\* if (key == 'p' || key == ' ') { running = !running; }
IfPause(s, k) ==
    IF k = "p" \/ k = " " THEN [s EXCEPT !.running = ~s.running] ELSE s

\* Mutant of IfBigBang: the draw selects big_bang whether running or not.
IfBigBang_draw_while_paused(s, k, rs) ==
    IF k = "b" \/ rs = 0
    THEN {LET g == tick(game_big_bang(s.game, zero), s.wrap)
          IN  [s EXCEPT !.game = g, !.screen = render(g),
                        !.calls = @ \o <<Call("big_bang", 295), Call("tick", 296),
                                         Call("render", 297)>>] :
             zero \in SUBSET Dead(front(s.game))}
    ELSE {s}

\* if (key == 'b' || (running && random_selector == 0))
\*     { game->big_bang(); game->tick(wrap); game->render(); }
IfBigBang(s, k, rs) ==
    IF k = "b" \/ (s.running /\ rs = 0)
    THEN {LET g == tick(game_big_bang(s.game, zero), s.wrap)
          IN  [s EXCEPT !.game = g, !.screen = render(g),
                        !.calls = @ \o <<Call("big_bang", 295), Call("tick", 296),
                                         Call("render", 297)>>] :
             zero \in SUBSET Dead(front(s.game))}
    ELSE {s}

\* Mutant of IfInvert: the render after invert is missing.
IfInvert_no_render(s, k, rs) ==
    IF k = "i" \/ (s.running /\ rs = 1)
    THEN [s EXCEPT !.game = game_invert(s.game),
                   !.calls = @ \o <<Call("invert", 302)>>]
    ELSE s

\* if (key == 'i' || (running && random_selector == 1))
\*     { game->invert(); game->render(); }
IfInvert(s, k, rs) ==
    IF k = "i" \/ (s.running /\ rs = 1)
    THEN LET g == game_invert(s.game)
         IN  [s EXCEPT !.game = g, !.screen = render(g),
                       !.calls = @ \o <<Call("invert", 302), Call("render", 303)>>]
    ELSE s

\* if (key == 't' || (running && random_selector == 2))
\*     { game->thanos(); game->render(); }
IfThanos(s, k, rs) ==
    IF k = "t" \/ (s.running /\ rs = 2)
    THEN {LET g == game_thanos(s.game, one)
          IN  [s EXCEPT !.game = g, !.screen = render(g),
                        !.calls = @ \o <<Call("thanos", 308), Call("render", 309)>>] :
             one \in SUBSET Alive(front(s.game))}
    ELSE {s}

\* One normal transition and its render.
Advance(s) ==
    LET g == tick(s.game, s.wrap)
    IN  [s EXCEPT !.game = g, !.screen = render(g),
                  !.calls = @ \o <<Call("tick", 314), Call("render", 315)>>]

\* Mutant of IfAdvance: running and 's' are two statements, each advancing.
IfAdvance_twice(s, k) ==
    LET s1 == IF s.running THEN Advance(s) ELSE s
    IN  IF k = "s" THEN Advance(s1) ELSE s1

\* if (running || key == 's') { game->tick(wrap); game->render(); }
IfAdvance(s, k) ==
    IF s.running \/ k = "s" THEN Advance(s) ELSE s

\* The states the statements of lines 265-316 lead to, run in order.
BodyResults(s, k, rs) ==
    UNION {UNION {{IfAdvance(s3, k) : s3 \in IfThanos(IfInvert(s2, k, rs), k, rs)} :
                     s2 \in IfBigBang(IfPause(IfWrap(IfFaster(IfSlower(s1, k), k), k), k),
                                      k, rs)} :
              s1 \in IfResize(s, k)}

\* main() up to the loop: tick_ms = min_tick_ms, timeout(tick_ms), new_game(),
\* render(), running = true, wrap = true.
Init ==
    /\ game \in new_game
    /\ screen = render(game)
    /\ wrap = TRUE
    /\ running = TRUE
    /\ tick_ms = min_tick_ms
    /\ timeout_ms = min_tick_ms
    /\ key = "ERR"
    /\ random_selector = 0
    /\ calls = <<>>
    /\ pc = "getch"
    /\ g0 = grid(1, 1)

\* auto random_selector = random_int_generator(); auto key = getch();
Getch ==
    /\ pc = "getch"
    /\ random_selector' \in Draws
    /\ key' \in Keys
    /\ pc' = "body"
    /\ UNCHANGED <<game, screen, wrap, running, tick_ms, timeout_ms, calls, g0>>

\* Lines 265-316: the nine if statements before the quit test.
Body ==
    /\ pc = "body"
    /\ \E t \in BodyResults(MainState, key, random_selector) :
          /\ game' = t.game
          /\ screen' = t.screen
          /\ wrap' = t.wrap
          /\ running' = t.running
          /\ tick_ms' = t.tick_ms
          /\ timeout_ms' = t.timeout_ms
          /\ calls' = t.calls
    /\ pc' = "quit"
    /\ UNCHANGED <<key, random_selector, g0>>

\* Mutant of Quit: the key bound to nothing leaves the loop too.
Quit_on_unbound_key ==
    /\ pc = "quit"
    /\ pc' = IF key = "q" \/ key = "x" THEN "done" ELSE "getch"
    /\ key' = "ERR"
    /\ random_selector' = 0
    /\ calls' = <<>>
    /\ UNCHANGED <<game, screen, wrap, running, tick_ms, timeout_ms, g0>>

\* if (key == 'q') break;  -- otherwise the next iteration starts and the
\* loop's locals go out of scope.
Quit ==
    /\ pc = "quit"
    /\ pc' = IF key = "q" THEN "done" ELSE "getch"
    /\ key' = "ERR"
    /\ random_selector' = 0
    /\ calls' = <<>>
    /\ UNCHANGED <<game, screen, wrap, running, tick_ms, timeout_ms, g0>>

Next == Getch \/ Body \/ Quit

Spec == Init /\ [][Next]_vars

\* Every cell of the front grid has been written (no operation reads a
\* placeholder value of an unwritten cell).
FrontWritten == front(game).uninit = {}

\* ------------------------------------------- direct calls of the operations
\* Every game the constructor can build with a size <<w, h>> of the set sizes.
Games(sizes) ==
    UNION {{game_of_life(sz[1], sz[2], zero) :
               zero \in SUBSET (0..(sz[1] * sz[2] - 1))} : sz \in sizes}

\* The sizes of at most n cells.
SizesUpTo(n) == {sz \in (1..n) \X (1..n) : sz[1] * sz[2] <= n}

\* The cells of the 2x2 block whose top-left cell is (x, y), as (x, y) pairs.
BlockCells(x, y) == {<<x, y>>, <<x + 1, y>>, <<x, y + 1>>, <<x + 1, y + 1>>}

\* The cells of the blinker centred at (cx, cy), lying along x (horizontal) or
\* along y.
BlinkerCells(cx, cy, horizontal) ==
    IF horizontal THEN {<<cx - 1, cy>>, <<cx, cy>>, <<cx + 1, cy>>}
                  ELSE {<<cx, cy - 1>>, <<cx, cy>>, <<cx, cy + 1>>}

\* The storage indices of a set of in-range (x, y) pairs in a grid of width w.
Indices(cells, w) == {c[1] + c[2] * w : c \in cells}

\* Games whose only live cells are one 2x2 block that fits the grid.
BlockGames ==
    UNION {{game_of_life(w, h, Indices(BlockCells(x, y), w)) :
               <<x, y>> \in (0..(w - 2)) \X (0..(h - 2))} :
              <<w, h>> \in (2..MaxBlockDim) \X (2..MaxBlockDim)}

\* Every live cell of the blinker keeps at least two cells from every edge.
FarFromEdges(cells, w, h) ==
    \A c \in cells : c[1] >= 2 /\ c[1] <= w - 3 /\ c[2] >= 2 /\ c[2] <= h - 3

\* Games whose only live cells are one blinker far from the edges.
BlinkerGames ==
    UNION {{game_of_life(w, h, Indices(BlinkerCells(c[1], c[2], hz), w)) :
               <<c, hz>> \in {q \in ((0..(w - 1)) \X (0..(h - 1))) \X BOOLEAN :
                                 FarFromEdges(BlinkerCells(q[1][1], q[1][2], q[2]), w, h)}} :
              <<w, h>> \in (5..MaxBlinkerDim) \X (5..MaxBlinkerDim)}

\* What a direct call leaves alone.
MainIdle ==
    /\ running = FALSE
    /\ tick_ms = min_tick_ms
    /\ timeout_ms = min_tick_ms
    /\ key = "ERR"
    /\ random_selector = 0
    /\ screen = <<>>
    /\ pc = "direct"

\* A game of any of the input classes, about to be ticked with either policy.
InitGen ==
    /\ game \in Games(SizesUpTo(MaxCells)) \cup BlockGames \cup BlinkerGames
    /\ g0 = front(game)
    /\ wrap \in BOOLEAN
    /\ calls = <<>>
    /\ MainIdle

\* game.tick(wrap), at most twice in succession.
DirectTick ==
    /\ pc = "direct"
    /\ Len(calls) < 2
    /\ game' = tick(game, wrap)
    /\ calls' = Append(calls, Call("tick", 204))
    /\ UNCHANGED <<screen, wrap, running, tick_ms, timeout_ms, key,
                   random_selector, pc, g0>>

NextGen == DirectTick

SpecGen == InitGen /\ [][NextGen]_vars

\* A game of up to MaxPW x MaxPH, about to be perturbed.
InitPert ==
    /\ game \in Games((1..MaxPW) \X (1..MaxPH))
    /\ g0 = front(game)
    /\ wrap = TRUE
    /\ calls = <<>>
    /\ MainIdle

\* What a direct call of a perturbation leaves alone.
PertFrame ==
    UNCHANGED <<screen, wrap, running, tick_ms, timeout_ms, key,
                random_selector, pc, g0>>

\* game.invert()
DirectInvert ==
    /\ pc = "direct"
    /\ Len(calls) < 2
    /\ game' = game_invert(game)
    /\ calls' = Append(calls, Call("invert", 217))
    /\ PertFrame

\* game.thanos()
DirectThanos ==
    /\ pc = "direct"
    /\ Len(calls) < 2
    /\ \E one \in SUBSET Alive(front(game)) : game' = game_thanos(game, one)
    /\ calls' = Append(calls, Call("thanos", 222))
    /\ PertFrame

\* game.big_bang()
DirectBigBang ==
    /\ pc = "direct"
    /\ Len(calls) < 2
    /\ \E zero \in SUBSET Dead(front(game)) : game' = game_big_bang(game, zero)
    /\ calls' = Append(calls, Call("big_bang", 211))
    /\ PertFrame

NextPert == DirectInvert \/ DirectThanos \/ DirectBigBang

SpecPert == InitPert /\ [][NextPert]_vars

\* The names of the calls logged so far.
CallNames == [i \in 1..Len(calls) |-> calls[i][1]]

\* ====================================================== claims: the rule
\* The eight offsets (dx, dy) # (0, 0) of {-1, 0, 1} x {-1, 0, 1}.
Offsets == {d \in {-1, 0, 1} \X {-1, 0, 1} : d # <<0, 0>>}

\* Offset d of (x, y) counts a live neighbour: the cell at ((x + dx) mod width,
\* (y + dy) mod height) is alive, and the offset does not cross an edge unless
\* the topology wraps.
OffsetAlive(g, x, y, d, wr) ==
    LET nx == x + d[1]
        ny == y + d[2]
        crosses == nx < 0 \/ nx >= g.width \/ ny < 0 \/ ny >= g.height
    IN  (wr \/ ~crosses) /\ g.data[(nx % g.width) + (ny % g.height) * g.width]

\* The number of offsets that count a live neighbour.
ClassicCount(g, x, y, wr) ==
    Cardinality({d \in Offsets : OffsetAlive(g, x, y, d, wr)})

\* The classic rule: alive iff n = 3, or alive before and n = 2.
ClassicAlive(g, x, y, wr) ==
    LET n == ClassicCount(g, x, y, wr)
    IN  n = 3 \/ (g.data[x + y * g.width] /\ n = 2)

\* The grid a tick read (in) and the grid it wrote (out), after the tick.
TickIn == IF Len(calls) = 1 THEN g0 ELSE back(game)
TickOut == front(game)

\* C1: after next_generation(in, out, wrap), out(x, y) is alive iff the classic
\* rule says so for the count of the eight offsets, edge-crossing offsets
\* counting only under wrap; for every grid, content and both policies.
C1_NextGenerationRule ==
    Len(calls) >= 1 =>
        /\ DimsMatch(TickIn, TickOut)
        /\ \A x \in 0..(TickIn.width - 1), y \in 0..(TickIn.height - 1) :
              TickOut.data[x + y * TickOut.width] = ClassicAlive(TickIn, x, y, wrap)

\* C1 witness: a wrapped tick of a grid at least three wide in which (0, 0) and
\* (width-1, 0) are alive and the bounded policy would have decided (0, 0)
\* the other way.
C1_Witness ==
    /\ Len(calls) = 1
    /\ wrap
    /\ g0.width >= 3
    /\ g0.data[0]
    /\ g0.data[g0.width - 1]
    /\ TickOut.data[0] # ClassicAlive(g0, 0, 0, FALSE)

\* g's only live cells are one 2x2 block that fits the grid.
IsBlockGrid(g) ==
    /\ g.width >= 2
    /\ g.height >= 2
    /\ \E c \in (0..(g.width - 2)) \X (0..(g.height - 2)) :
          Alive(g) = Indices(BlockCells(c[1], c[2]), g.width)

\* C7 as stated: a 2x2 block in any grid of width >= 2 and height >= 2 is
\* unchanged by one transition under wrap = true.
C7_BlockStillLife_Original ==
    (wrap /\ Len(calls) = 1 /\ IsBlockGrid(g0)) => front(game).data = g0.data

\* C7 amended: a 2x2 block in any grid of width >= 3 and height >= 3 is
\* unchanged by one transition under wrap = true.
C7_BlockStillLife ==
    (wrap /\ Len(calls) = 1 /\ IsBlockGrid(g0) /\ g0.width >= 3 /\ g0.height >= 3)
        => front(game).data = g0.data

\* C7 witness: a block in a grid at least 3x3 has been ticked once with wrap.
C7_Witness ==
    /\ wrap
    /\ Len(calls) = 1
    /\ IsBlockGrid(g0)
    /\ g0.width >= 3
    /\ g0.height >= 3
    /\ front(game).data = g0.data

\* The blinkers (centre, orientation) far from the edges that g consists of.
BlinkersOf(g) ==
    {q \in ((0..(g.width - 1)) \X (0..(g.height - 1))) \X BOOLEAN :
        /\ FarFromEdges(BlinkerCells(q[1][1], q[1][2], q[2]), g.width, g.height)
        /\ Alive(g) = Indices(BlinkerCells(q[1][1], q[1][2], q[2]), g.width)}

\* C8: a blinker far from the edges becomes the perpendicular line through the
\* same centre after one tick and is back after two, under either policy.
C8_BlinkerPeriodTwo ==
    \A q \in BlinkersOf(g0) :
        /\ Len(calls) = 1 =>
              Alive(front(game)) = Indices(BlinkerCells(q[1][1], q[1][2], ~q[2]), g0.width)
        /\ Len(calls) = 2 => front(game).data = g0.data

\* C8 witness: a blinker has been ticked twice without wrap.
C8_Witness == BlinkersOf(g0) # {} /\ Len(calls) = 2 /\ ~wrap

\* ============================================== claims: the perturbations
\* C9: one invert complements every cell, two in succession restore the grid.
C9_InvertSelfInverse ==
    /\ CallNames = <<"invert">> =>
          /\ DOMAIN front(game).data = DOMAIN g0.data
          /\ \A i \in DOMAIN g0.data : front(game).data[i] = ~g0.data[i]
    /\ CallNames = <<"invert", "invert">> => front(game) = g0

\* C9 witness: a grid with live and dead cells has been inverted twice.
C9_Witness ==
    /\ CallNames = <<"invert", "invert">>
    /\ Alive(g0) # {}
    /\ Dead(g0) # {}

\* C10: after thanos the live cells are a subset of those before.
C10_ThanosNonIncreasing ==
    CallNames = <<"thanos">> =>
        /\ DOMAIN front(game).data = DOMAIN g0.data
        /\ Alive(front(game)) \subseteq Alive(g0)
        /\ Cardinality(Alive(front(game))) <= Cardinality(Alive(g0))

\* C10 witness: thanos culled some live cells and kept others.
C10_Witness ==
    /\ CallNames = <<"thanos">>
    /\ Alive(front(game)) # {}
    /\ Alive(front(game)) # Alive(g0)

\* ============================================== claims: the control loop
ResizeKeys == {"KEY_RESIZE", "r"}
PerturbNames == {"big_bang", "invert", "thanos"}

\* The positions of a call log that hold one of the given names.
Positions(log, names) == {i \in 1..Len(log) : log[i][1] \in names}

\* The call at position i of the log is followed by a tick and its render,
\* with nothing but the perturbation's own render in between.
FollowedByTickRender(log, i) ==
    \E j \in (i + 1)..(Len(log) - 1) :
        /\ \A m \in (i + 1)..(j - 1) : log[m][1] = "render"
        /\ log[j][1] = "tick"
        /\ log[j + 1][1] = "render"

\* The perturbation is selected in an iteration with key k, draw rs and
\* running flag r (as it stands after the pause toggle).
Selected(name, k, rs, r) ==
    \/ name = "big_bang" /\ (k = "b" \/ (r /\ rs = 0))
    \/ name = "invert" /\ (k = "i" \/ (r /\ rs = 1))
    \/ name = "thanos" /\ (k = "t" \/ (r /\ rs = 2))

\* C2 as stated, for the iterations that select one perturbation: it is
\* applied and followed by one transition and a render before anything else
\* happens, running or paused; 'i' and 't' pressed while paused advance the
\* simulation by one generation.
C2_PerturbationThenTransition ==
    [][pc = "body" =>
         LET chosen == {name \in PerturbNames :
                           Selected(name, key, random_selector, running')}
         IN  /\ Cardinality(chosen) = 1 =>
                   /\ {calls'[i][1] : i \in Positions(calls', PerturbNames)} = chosen
                   /\ \A i \in Positions(calls', PerturbNames) :
                         FollowedByTickRender(calls', i)
             /\ (key = "i" /\ ~running') =>
                   game' = tick(game_invert(game), wrap')
             /\ (key = "t" /\ ~running') =>
                   \E one \in SUBSET Alive(front(game)) :
                       game' = tick(game_thanos(game, one), wrap')]_vars

\* C3 as stated: at most one perturbation operator is applied per iteration,
\* and a forced key applies exactly its own operator and no other.
C3_AtMostOnePerturbation ==
    pc = "quit" =>
        LET applied == {calls[i][1] : i \in Positions(calls, PerturbNames)}
        IN  /\ Cardinality(Positions(calls, PerturbNames)) <= 1
            /\ key = "b" => applied = {"big_bang"}
            /\ key = "i" => applied = {"invert"}
            /\ key = "t" => applied = {"thanos"}

\* The normal-advance calls of line 314 in a log.
NormalTicks(log) == {i \in 1..Len(log) : log[i] = Call("tick", 314)}

\* C4: the normal-advance step makes exactly one transition + swap + render
\* when running (after the pause toggle) is true or the key is 's', and none
\* otherwise; 's' while running does not make a second one.
C4_NormalAdvance ==
    [][pc = "body" =>
         LET adv == running' \/ key = "s"
             n == Len(calls')
             plain == /\ key \notin ResizeKeys
                      /\ \A name \in PerturbNames :
                            ~Selected(name, key, random_selector, running')
         IN  /\ Cardinality(NormalTicks(calls')) = IF adv THEN 1 ELSE 0
             /\ Cardinality({i \in 1..n : calls'[i] = Call("render", 315)})
                   = IF adv THEN 1 ELSE 0
             /\ adv => /\ n >= 2
                       /\ calls'[n - 1] = Call("tick", 314)
                       /\ calls'[n] = Call("render", 315)
                       /\ screen' = render(game')
             /\ plain => /\ game' = IF adv THEN tick(game, wrap') ELSE game
                         /\ calls' = IF adv THEN <<Call("tick", 314), Call("render", 315)>>
                                            ELSE <<>>]_vars

\* C4 witness: 's' was pressed while running and the iteration made one
\* normal transition.
C4_Witness ==
    /\ pc = "quit"
    /\ key = "s"
    /\ running
    /\ calls = <<Call("tick", 314), Call("render", 315)>>
    /\ front(game) # back(game)

\* C5: tick_ms stays within [8, 1024]; '-' doubles it only below 1024, '+'
\* halves it only above 8, and nothing else changes it.
C5_SpeedClamp ==
    /\ tick_ms \in 8..1024
    /\ [][/\ tick_ms' \in 8..1024
          /\ timeout_ms' = tick_ms'
          /\ tick_ms' # tick_ms =>
                /\ pc = "body"
                /\ \/ key = "-" /\ tick_ms < 1024 /\ tick_ms' = 2 * tick_ms
                   \/ key = "+" /\ tick_ms > 8 /\ 2 * tick_ms' = tick_ms
          /\ (pc = "body" /\ key = "-" /\ tick_ms < 1024) => tick_ms' = 2 * tick_ms
          /\ (pc = "body" /\ key = "+" /\ tick_ms > 8) => 2 * tick_ms' = tick_ms]_vars

\* C5 witness: '-' was pressed in an iteration that ends with tick_ms at 1024.
C5_Witness == pc = "quit" /\ key = "-" /\ tick_ms = 1024

\* What every resize / 'r' iteration does: the buffer is rebuilt and rendered
\* first, wrap, running and tick_ms stay, and the loop does not exit.
ResizeCommon ==
    /\ (pc = "body" /\ key \in ResizeKeys) =>
          /\ Len(calls') >= 2
          /\ calls'[1] = Call("new_game", 267)
          /\ calls'[2] = Call("render", 268)
          /\ wrap' = wrap
          /\ running' = running
          /\ tick_ms' = tick_ms
          /\ pc' # "done"
    /\ (pc = "quit" /\ key \in ResizeKeys) => pc' = "getch"

\* C6 as stated: nothing else is applied to the new buffer in that iteration,
\* also when running is true.
C6_ResizeBypasses_Original ==
    [][/\ ResizeCommon
       /\ (pc = "body" /\ key \in ResizeKeys) =>
             /\ calls' = <<Call("new_game", 267), Call("render", 268)>>
             /\ game' \in new_game
             /\ screen' = render(game')]_vars

\* C6 amended: the new buffer is left as built only when running is false;
\* when running is true the rest of the iteration still runs on the new
\* buffer: the perturbation the draw selects, then the normal transition and
\* its render.
C6_ResizeThenRest ==
    [][/\ ResizeCommon
       /\ (pc = "body" /\ key \in ResizeKeys /\ ~running) =>
             /\ calls' = <<Call("new_game", 267), Call("render", 268)>>
             /\ game' \in new_game
             /\ screen' = render(game')
       /\ (pc = "body" /\ key \in ResizeKeys /\ running) =>
             /\ calls'[Len(calls') - 1] = Call("tick", 314)
             /\ calls'[Len(calls')] = Call("render", 315)
             /\ screen' = render(game')
             /\ {calls'[i][1] : i \in Positions(calls', PerturbNames)} =
                   {name \in PerturbNames :
                       Selected(name, key, random_selector, running)}
             /\ random_selector \notin {0, 1, 2} =>
                   \E g \in new_game : game' = tick(g, wrap)]_vars

\* C6 witness: 'r' was pressed while running and the new buffer was advanced.
C6_Witness ==
    /\ pc = "quit"
    /\ key = "r"
    /\ running
    /\ calls = <<Call("new_game", 267), Call("render", 268),
                 Call("tick", 314), Call("render", 315)>>

\* C11: after big_bang the live cells are a superset of those before.
C11_BigBangNonDecreasing ==
    CallNames = <<"big_bang">> =>
        /\ DOMAIN front(game).data = DOMAIN g0.data
        /\ Alive(g0) \subseteq Alive(front(game))
        /\ Cardinality(Alive(front(game))) >= Cardinality(Alive(g0))

\* C11 witness: big_bang on a grid with live cells gave birth to some dead
\* cells and left others dead.
C11_Witness ==
    /\ CallNames = <<"big_bang">>
    /\ Alive(g0) # {}
    /\ Alive(front(game)) # Alive(g0)
    /\ Dead(front(game)) # {}

\* ================================================== claims: the renderer
\* A game of even height and at most MaxRenderCells cells, about to be rendered.
InitRender ==
    /\ game \in Games({sz \in SizesUpTo(MaxRenderCells) : sz[2] % 2 = 0})
    /\ g0 = front(game)
    /\ wrap = TRUE
    /\ calls = <<>>
    /\ MainIdle

\* game.render(), once.
DirectRender ==
    /\ pc = "direct"
    /\ calls = <<>>
    /\ front(game).height % 2 = 0
    /\ screen' = render(game)
    /\ calls' = <<Call("render", 179)>>
    /\ UNCHANGED <<game, wrap, running, tick_ms, timeout_ms, key,
                   random_selector, pc, g0>>

NextRender == DirectRender

SpecRender == InitRender /\ [][NextRender]_vars

\* The glyph the mapping table gives for a (top, bottom) pair.
GlyphTable(top, bottom) ==
    CASE ~top /\ ~bottom -> "blank"
      [] top /\ ~bottom -> "upper"
      [] ~top /\ bottom -> "lower"
      [] top /\ bottom -> "full"

\* C12: render emits height/2 rows of width glyphs, the glyph at row r, column
\* x given by the pair (cell(x, 2r), cell(x, 2r+1)) through the table, and
\* changes no cell.
C12_RenderMapping ==
    CallNames = <<"render">> =>
        /\ DOMAIN screen = 0..((g0.height \div 2) - 1)
        /\ \A r \in DOMAIN screen :
              /\ DOMAIN screen[r] = 0..(g0.width - 1)
              /\ \A x \in DOMAIN screen[r] :
                    screen[r][x] = GlyphTable(g0.data[x + (2 * r) * g0.width],
                                              g0.data[x + (2 * r + 1) * g0.width])
        /\ front(game) = g0

\* C12 witness: a grid of two output rows was rendered and shows all four
\* glyphs.
C12_Witness ==
    /\ CallNames = <<"render">>
    /\ g0.height = 4
    /\ {screen[r][x] : <<r, x>> \in (0..1) \X (0..(g0.width - 1))} =
          {"blank", "upper", "lower", "full"}

\* ================================================== claims: new_game
\* Terminal sizes getmaxyx can report, as <<columns, lines>>.
NewTermSizes == (1..2) \X (1..2)

\* What GOL_WIDTH / GOL_HEIGHT can hold: unset, or set to an integer.
Overrides == {<<FALSE, 0>>} \cup {<<TRUE, v>> : v \in (-2)..2}

\* The width or height new_game uses: the override when set, else the
\* terminal's.
Chosen(term, env) == IF env[1] THEN env[2] ELSE term

\* The storage indices the constructor's fill loop writes through.
FillIndices(w, h) ==
    {index(grid(w, h), CRem(i, w), CQuot(i, w)) : i \in 0..(w * h - 1)}

\* What a constructor whose fill loop wrote outside the storage can leave
\* behind: the dimensions as given, the cells holding anything.
GamesAfterStrayWrites(w, h) ==
    LET cells == 0..(w * h - 1)
    IN  {[first |-> FALSE, a |-> grid(w, h),
          b |-> [width |-> w, height |-> h, data |-> d,
                 uninit |-> cells \ FillIndices(w, h)]] :
            d \in [cells -> BOOLEAN]}

\* No game has been built yet.
InitNew ==
    /\ game = double_buffered_grid(0, 0)
    /\ g0 = grid(1, 1)
    /\ wrap = TRUE
    /\ calls = <<>>
    /\ MainIdle

\* new_game(), once: pc becomes "thrown" when new bool[width * height] is given
\* a negative length (std::bad_array_new_length), "crashed" or "constructed"
\* when the fill loop writes outside the storage, "constructed" otherwise.
DirectNewGame ==
    /\ pc = "direct"
    /\ calls = <<>>
    /\ \E term \in NewTermSizes, width_env \in Overrides, height_env \in Overrides :
          LET width == Chosen(term[1], width_env)
              height == Chosen(term[2], height_env)
          IN  IF width * (height * 2) < 0
              THEN pc' = "thrown" /\ game' = game
              ELSE IF FillIndices(width, height * 2) \subseteq
                          0..(width * (height * 2) - 1)
              THEN /\ pc' = "constructed"
                   /\ \E zero \in SUBSET (0..(width * (height * 2) - 1)) :
                         game' = game_of_life(width, height * 2, zero)
              ELSE \/ pc' = "crashed" /\ game' = game
                   \/ /\ pc' = "constructed"
                      /\ game' \in GamesAfterStrayWrites(width, height * 2)
    /\ calls' = <<Call("new_game", 232)>>
    /\ UNCHANGED <<screen, wrap, running, tick_ms, timeout_ms, key,
                   random_selector, g0>>

NextNew == DirectNewGame

SpecNew == InitNew /\ [][NextNew]_vars

\* C13: new_game never constructs a grid of width < 1 or height < 2, and never
\* lets a bad size through to the storage: the size is coerced or rejected.
C13_NewGameDimensions ==
    /\ pc # "crashed"
    /\ pc = "constructed" =>
          \A g \in {game.a, game.b} : g.width >= 1 /\ g.height >= 2

\* ================================================== claims: the loop, continued
\* C14: the loop ends only in an iteration whose key is 'q'; an iteration whose
\* key is 'q' runs its earlier steps (a normal advance when running) and ends
\* the loop at its quit test; once ended the loop stays ended.
C14_QuitOnlyByQ ==
    [][/\ (pc' = "done") => (pc = "quit" /\ key = "q")
       /\ (pc = "quit" /\ key = "q") => (pc' = "done")
       /\ (pc = "body" /\ key = "q") =>
             /\ pc' = "quit" /\ key' = "q"
             /\ Cardinality(NormalTicks(calls')) = (IF running THEN 1 ELSE 0)
       /\ pc # "done"]_vars

\* C14 witness: the loop has ended.
C14_Witness == pc = "done"

\* C17: front and back are the two grids of the buffer, one each, of identical
\* width and height, and the front height is even.
C17_BufferDimensions ==
    /\ DimsMatch(front(game), back(game))
    /\ front(game).height % 2 = 0
    /\ \/ game.first /\ front(game) = game.a /\ back(game) = game.b
       \/ ~game.first /\ front(game) = game.b /\ back(game) = game.a

\* C17 witness: an iteration rebuilt the game and then advanced it, so the
\* roles of the new buffer have been exchanged once.
C17_Witness ==
    /\ pc = "quit"
    /\ key = "KEY_RESIZE"
    /\ Call("new_game", 267) \in {calls[i] : i \in 1..Len(calls)}
    /\ Call("tick", 314) \in {calls[i] : i \in 1..Len(calls)}
    /\ game.first

\* Timeout and the key bound to nothing.
IdleKeys == {"ERR", "x"}

\* C18: while paused, an iteration that reads a timeout or an unbound key
\* changes nothing, whatever the random draw: cells, roles, wrap, running,
\* tick_ms and the displayed glyphs stay, and no operation is called.
C18_PausedIdleFrame ==
    [][(pc = "body" /\ ~running /\ key \in IdleKeys) =>
          /\ UNCHANGED <<game, screen, wrap, running, tick_ms, timeout_ms>>
          /\ calls' = <<>>]_vars

\* C18 witness: a paused iteration with an unbound key and the draw that
\* selects big_bang when running has run its body, calling nothing.
C18_Witness ==
    /\ pc = "quit"
    /\ ~running
    /\ key = "x"
    /\ random_selector = 0
    /\ calls = <<>>

\* C19: at every input read the displayed glyph grid is the rendering of the
\* current front grid.
C19_ScreenIsRenderOfFront == pc = "getch" => screen = render(game)

\* C19 witness: an input read while paused, after transitions have made the
\* first-built grid front again and the display differs from an empty one.
C19_Witness ==
    /\ pc = "getch"
    /\ ~running
    /\ game.first
    /\ Alive(front(game)) # {}
    /\ Alive(front(game)) # Alive(back(game))

\* C20: every cell of the front grid has been written; the back grid is either
\* fully written or the never-written grid of a fresh game, whose roles were
\* exchanged once by the constructor; and a role exchange never brings an
\* unwritten cell to the front.
C20_NoReadBeforeWrite ==
    /\ front(game).uninit = {}
    /\ \/ back(game).uninit = {}
       \/ back(game).uninit = DOMAIN back(game).data /\ ~game.first

\* C20 witness: an iteration rebuilt the game and its first transition
\* overwrote the never-written back grid, which is now front.
C20_Witness ==
    /\ pc = "quit"
    /\ key = "r"
    /\ Call("new_game", 267) \in {calls[i] : i \in 1..Len(calls)}
    /\ game.first
    /\ back(game).uninit = {}

\* ================================================== claims: storage and frame
\* C15: for every (x, y), negative and beyond the size included, the storage
\* index is (x mod w) + (y mod h) * w with a non-negative modulo, in [0, w*h).
C15_IndexInBounds ==
    LET g == front(game)
    IN  \A x \in (-2 * g.width)..(2 * g.width),
           y \in (-2 * g.height)..(2 * g.height) :
           /\ index(g, x, y) \in 0..(g.width * g.height - 1)
           /\ index(g, x, y) = (x % g.width) + (y % g.height) * g.width

\* The grid out holding other contents: all dead, all alive, the complement.
OtherContents(out) ==
    {[out EXCEPT !.data = [i \in DOMAIN out.data |-> b]] : b \in BOOLEAN}
        \cup {[out EXCEPT !.data = [i \in DOMAIN out.data |-> ~out.data[i]]]}

\* C16: a tick leaves the grid it read untouched (it is the new back), writes
\* every cell of the grid it wrote (the new front), and the cells it wrote do
\* not depend on what that grid held before.
C16_NextGenerationFrame ==
    [][game' # game =>
          /\ back(game') = front(game)
          /\ front(game').uninit = {}
          /\ DOMAIN front(game').data = DOMAIN back(game).data
          /\ \A other \in OtherContents(back(game)) :
                next_generation(front(game), other, wrap).data = front(game').data]_vars

\* C16 witness: a second tick wrote over a grid that held a live generation and
\* produced a different live generation.
C16_Witness ==
    /\ Len(calls) = 2
    /\ Alive(g0) # {}
    /\ Alive(front(game)) # {}
    /\ front(game).data # g0.data

====
